---- MODULE Spec2Model ----
(***************************************************************************)
(* The weekly-summary cron route of apps/web                               *)
(* (src/apps/web/app/api/cron/weekly_summary/route.ts): the POST handler,  *)
(* the getProducts query it runs, and the email sends it issues and joins. *)
(***************************************************************************)
EXTENDS Integers, Sequences, FiniteSets, TLC

(***************************************************************************)
(* Bounds of the model.                                                    *)
(***************************************************************************)
MaxProducts == 2
MaxMembers == 2
MaxEnvironments == 2
MaxSurveys == 2
MaxResponses == 2
MaxQuestions == 2
MaxDisplays == 1
\* the larger counts the completion-rate arithmetic is exercised on
MaxRateResponses == 23
MaxRateDisplays == 40

(***************************************************************************)
(* The request and the environment.                                        *)
(***************************************************************************)
\* CRON_SECRET, and the values headers().get("x-api-key") can give: the
\* secret, another string, or null when the header is absent.
CRON_SECRET == "cron-secret"
NullHeader == "<null>"
Headers == {CRON_SECRET, "wrong-key", NullHeader}

ProductIds == 1..MaxProducts
Email(i) == "user" \o ToString(i)
QuestionId(k) == "q" \o ToString(k)
Headline(k) == "headline" \o ToString(k)
SurveyName(j) == "survey" \o ToString(j)
EnvironmentId(e) == "env" \o ToString(e)

SeqsUpTo(S, n) == UNION {[1..k -> S] : k \in 0..n}

(***************************************************************************)
(* JavaScript values held in a response's data map: strings and numbers,   *)
(* and null (the value the route substitutes).                             *)
(***************************************************************************)
Str(s) == [t |-> "string", s |-> s, n |-> 0]
Num(n) == [t |-> "number", s |-> "", n |-> n]
Null == [t |-> "null", s |-> "", n |-> 0]
Undefined == [t |-> "undefined", s |-> "", n |-> 0]

\* ToBoolean of a JavaScript value
Truthy(v) ==
  CASE v.t = "string" -> v.s # ""
    [] v.t = "number" -> v.n # 0
    [] OTHER -> FALSE

\* obj[key] on a map held as a function over the keys it has
Get(obj, key) == IF key \in DOMAIN obj THEN obj[key] ELSE Undefined

(***************************************************************************)
(* User.notificationSettings: null, an object without weeklySummary, or an *)
(* object whose weeklySummary maps some product ids to booleans.           *)
(***************************************************************************)
NoMap == [x \in {} |-> TRUE]
SettingsNull == [kind |-> "null", weeklySummary |-> NoMap]
SettingsNoWeeklySummary == [kind |-> "object", weeklySummary |-> NoMap]
SettingsWith(m) == [kind |-> "weeklySummary", weeklySummary |-> m]

WeeklySummaryMaps == UNION {[S -> BOOLEAN] : S \in SUBSET ProductIds}
AllSettings ==
  {SettingsNull, SettingsNoWeeklySummary} \cup {SettingsWith(m) : m \in WeeklySummaryMaps}

(***************************************************************************)
(* The shape prisma.product.findMany returns for the query of getProducts: *)
(* per product its id, its production environments (id, non-draft surveys  *)
(* with name, questions, status, the responses of the last seven days and  *)
(* the displays) and its team's memberships (user email and settings).     *)
(***************************************************************************)
Questions(n) == [k \in 1..n |-> [id |-> QuestionId(k), headline |-> Headline(k)]]
Displays(n) == [k \in 1..n |-> [status |-> IF k % 2 = 1 THEN "seen" ELSE "responded"]]
DataMaps(n, answers) == UNION {[S -> answers] : S \in SUBSET {QuestionId(k) : k \in 1..n}}
ResponseSet(finishedFlags, n, answers) ==
  {[finished |-> f, data |-> d] : f \in finishedFlags, d \in DataMaps(n, answers)}
SurveySet(statuses, maxQ, maxR, finishedFlags, answers, maxD) ==
  UNION {{[name |-> "", status |-> st, questions |-> Questions(q), responses |-> rs,
           displays |-> Displays(d)] :
            st \in statuses, d \in 0..maxD,
            rs \in SeqsUpTo(ResponseSet(finishedFlags, q, answers), maxR)} : q \in 0..maxQ}
Named(ss) == [j \in 1..Len(ss) |-> [ss[j] EXCEPT !.name = SurveyName(j)]]
EnvironmentSet(surveySet, maxS) ==
  {[id |-> "", surveys |-> Named(ss)] : ss \in SeqsUpTo(surveySet, maxS)}
Identified(es) == [e \in 1..Len(es) |-> [es[e] EXCEPT !.id = EnvironmentId(e)]]
MembershipSeqs(settings, maxM) ==
  {[i \in 1..Len(s) |-> [user |-> [email |-> Email(i), notificationSettings |-> s[i]]]] :
     s \in SeqsUpTo(settings, maxM)}
\* products 1..n of one team: they share the team's memberships
ProductSeqs(environmentSeqs, memberships, maxP) ==
  {[p \in 1..Len(es) |->
      [id |-> p, environments |-> Identified(es[p]), team |-> [memberships |-> memberships]]] :
     es \in SeqsUpTo(environmentSeqs, maxP)}

(***************************************************************************)
(* The arithmetic of line 90,                                              *)
(*   Math.round((totalCompletedResponses / totalDisplays) * 100),          *)
(* on IEEE 754 doubles.  A positive double is held as its 53 significand   *)
(* bits, most significant first, and the exponent of the first bit:        *)
(* the value is  SUM bits[i] * 2^(exp - i + 1).                            *)
(***************************************************************************)
SignificandBits == 53
\* the significand after its first bit is worked on in four limbs
LimbBits == (SignificandBits - 1) \div 4
Limbs == (SignificandBits - 1) \div LimbBits

Pow2(k) == 2 ^ k

RECURSIVE BitsToInt(_)
BitsToInt(bits) ==
  IF bits = <<>> THEN 0
  ELSE 2 * BitsToInt(SubSeq(bits, 1, Len(bits) - 1)) + bits[Len(bits)]

\* the n bits of v, most significant first
IntToBits(v, n) == [k \in 1..n |-> (v \div Pow2(n - k)) % 2]

\* the number of bits of v >= 1
BitLength(v) == CHOOSE n \in 1..30 : Pow2(n - 1) <= v /\ v < Pow2(n)

RECURSIVE Concat(_)
Concat(seqs) == IF seqs = <<>> THEN <<>> ELSE Head(seqs) \o Concat(Tail(seqs))

FromLimbs(limbs) == Concat([j \in 1..Len(limbs) |-> IntToBits(limbs[j], LimbBits)])
ToLimbs(bits) ==
  [j \in 1..(Len(bits) \div LimbBits) |->
     BitsToInt(SubSeq(bits, LimbBits * (j - 1) + 1, LimbBits * j))]

\* bits + 1; the carry out of the first bit is returned apart
Increment(bits) ==
  LET zeros == {i \in 1..Len(bits) : bits[i] = 0}
  IN IF zeros = {}
     THEN [bits |-> [i \in 1..Len(bits) |-> 0], carry |-> 1]
     ELSE LET z == CHOOSE i \in zeros : \A j \in zeros : j <= i
          IN [bits |-> [i \in 1..Len(bits) |-> IF i < z THEN bits[i] ELSE IF i = z THEN 1 ELSE 0],
              carry |-> 0]

\* round to nearest, ties to even: `bits` is the kept significand, `above`
\* and `tie` compare the discarded part with half a unit in the last place
RoundNearestEven(bits, exp, above, tie) ==
  IF above \/ (tie /\ bits[Len(bits)] = 1)
  THEN LET up == Increment(bits)
       IN IF up.carry = 1
          THEN [bits |-> <<1>> \o SubSeq(up.bits, 1, Len(bits) - 1), exp |-> exp + 1]
          ELSE [bits |-> up.bits, exp |-> exp]
  ELSE [bits |-> bits, exp |-> exp]

\* the next k limbs of r / d (0 <= r < d), and the remainder left
RECURSIVE LongDivision(_, _, _)
LongDivision(r, d, k) ==
  IF k = 0 THEN [limbs |-> <<>>, rem |-> r]
  ELSE LET rest == LongDivision((r * Pow2(LimbBits)) % d, d, k - 1)
       IN [limbs |-> <<(r * Pow2(LimbBits)) \div d>> \o rest.limbs, rem |-> rest.rem]

NaN == [kind |-> "NaN", bits |-> <<>>, exp |-> 0]
Infinity == [kind |-> "Infinity", bits |-> <<>>, exp |-> 0]
Zero == [kind |-> "zero", bits |-> <<>>, exp |-> 0]

\* c / d for integers c, d >= 0 (each a double exactly): the quotient
\* rounded to nearest even at 53 bits; 0/0 is NaN, c/0 is Infinity
Divide(c, d) ==
  IF d = 0 THEN (IF c = 0 THEN NaN ELSE Infinity)
  ELSE IF c = 0 THEN Zero
  ELSE LET up == IF c >= d THEN CHOOSE k \in 0..15 : d * Pow2(k) <= c /\ c < d * Pow2(k + 1)
                  ELSE 0
           down == IF c >= d THEN 0
                   ELSE CHOOSE k \in 1..15 : c * Pow2(k) >= d /\ c * Pow2(k - 1) < d
           num == c * Pow2(down)
           den == d * Pow2(up)
           q == LongDivision(num - den, den, Limbs)
           r == RoundNearestEven(<<1>> \o FromLimbs(q.limbs), up - down,
                                 2 * q.rem > den, 2 * q.rem = den)
       IN [kind |-> "finite", bits |-> r.bits, exp |-> r.exp]

\* limbs * m + carry for a small integer m, from the last limb; the carry
\* out of the first limb is returned apart
RECURSIVE TimesSmall(_, _, _)
TimesSmall(limbs, m, carry) ==
  IF limbs = <<>> THEN [limbs |-> <<>>, carry |-> carry]
  ELSE LET n == Len(limbs)
           t == limbs[n] * m + carry
           rest == TimesSmall(SubSeq(limbs, 1, n - 1), m, t \div Pow2(LimbBits))
       IN [limbs |-> rest.limbs \o <<t % Pow2(LimbBits)>>, carry |-> rest.carry]

\* x * 100: the exact product rounded to nearest even at 53 bits
TimesHundred(x) ==
  IF x.kind # "finite" THEN x
  ELSE LET low == TimesSmall(ToLimbs(Tail(x.bits)), 100, 0)
           top == 100 + low.carry
           p == IntToBits(top, BitLength(top)) \o FromLimbs(low.limbs)
           extra == Len(p) - SignificandBits
           kept == SubSeq(p, 1, SignificandBits)
           dropped == BitsToInt(SubSeq(p, SignificandBits + 1, Len(p)))
           half == Pow2(extra - 1)
           r == RoundNearestEven(kept, x.exp + extra, dropped > half, dropped = half)
       IN [kind |-> "finite", bits |-> r.bits, exp |-> r.exp]

\* a number as insights.completionRate holds it
Finite(n) == [kind |-> "finite", value |-> n]
NotANumber == [kind |-> "NaN", value |-> 0]
PlusInfinity == [kind |-> "Infinity", value |-> 0]

\* Math.round(x) for x >= 0: floor(x + 0.5), exactly; NaN and Infinity stay
MathRound(x) ==
  CASE x.kind = "NaN" -> NotANumber
    [] x.kind = "Infinity" -> PlusInfinity
    [] x.kind = "zero" -> Finite(0)
    [] OTHER ->
       IF x.exp < -1 THEN Finite(0)
       ELSE LET whole == BitsToInt(SubSeq(x.bits, 1, x.exp + 1))
                halfBit == x.bits[x.exp + 2]
            IN Finite(whole + halfBit)

completionRate(totalCompletedResponses, totalDisplays) ==
  MathRound(TimesHundred(Divide(totalCompletedResponses, totalDisplays)))

(***************************************************************************)
(* The pure steps of POST.                                                 *)
(***************************************************************************)
\* a check that accepts any key that is sent
AuthenticatedAnyKey(h) == h # NullHeader

\* line 33: headers().get("x-api-key") !== CRON_SECRET is the refusal
Authenticated(h) == h = CRON_SECRET

\* a filter that takes a flag set for any product
NotificationEnabledForAnyProduct(member, product) ==
  LET settings == member.user.notificationSettings
  IN /\ settings.kind = "weeklySummary"
     /\ \E id \in DOMAIN settings.weeklySummary : settings.weeklySummary[id]

\* lines 47-50: notificationSettings?.weeklySummary && weeklySummary[product.id]
NotificationEnabled(member, product) ==
  LET settings == member.user.notificationSettings
  IN /\ settings.kind = "weeklySummary"
     /\ product.id \in DOMAIN settings.weeklySummary
     /\ settings.weeklySummary[product.id]

\* lines 45-51: teamMembers.filter(...)
EnabledMembers(product) ==
  LET Enabled(member) == NotificationEnabled(member, product)
  IN SelectSeq(product.team.memberships, Enabled)

\* a comparison that never skips
NoRecipientsBelowZero(members) == Len(members) < 0

\* line 53: the product is skipped
NoRecipients(members) == Len(members) = 0

\* lines 57-63
InitialInsights ==
  [totalCompletedResponses |-> 0, totalDisplays |-> 0, totalResponses |-> 0,
   completionRate |-> Finite(0), numLiveSurvey |-> 0]

\* line 64: product.environments[0], undefined when there is none
NoEnvironment == [id |-> "<undefined>", surveys |-> <<>>]

\* a pick of the last environment
LastEnvironment(product) ==
  IF Len(product.environments) = 0 THEN NoEnvironment
  ELSE product.environments[Len(product.environments)]

\* a read that takes a missing environment for one without surveys
FirstEnvironmentOrEmpty(product) ==
  IF Len(product.environments) = 0 THEN [id |-> "", surveys |-> <<>>]
  ELSE product.environments[1]

FirstEnvironment(product) ==
  IF Len(product.environments) = 0 THEN NoEnvironment ELSE product.environments[1]

\* line 78: response.data[question.id] || null
Answer(response, question) ==
  LET value == Get(response.data, question.id)
  IN IF Truthy(value) THEN value ELSE Null

\* lines 75-81: for each response, for each question, push {headline, answer}
SurveyResponses(survey) ==
  Concat([r \in 1..Len(survey.responses) |->
            [q \in 1..Len(survey.questions) |->
               [headline |-> survey.questions[q].headline,
                answer |-> Answer(survey.responses[r], survey.questions[q])]]])

\* lines 69-73 and 82
SurveyDataOf(survey) == [name |-> survey.name, responses |-> SurveyResponses(survey)]

\* lines 84-90
IsFinished(r) == r.finished
AddSurvey(ins, survey) ==
  LET completed == ins.totalCompletedResponses + Len(SelectSeq(survey.responses, IsFinished))
      displays == ins.totalDisplays + Len(survey.displays)
  IN [totalCompletedResponses |-> completed,
      totalDisplays |-> displays,
      totalResponses |-> ins.totalResponses + Len(survey.responses),
      completionRate |-> completionRate(completed, displays),
      numLiveSurvey |-> ins.numLiveSurvey + (IF survey.status = "live" THEN 1 ELSE 0)]

\* line 93
NoCompletedResponses(ins) == ins.totalCompletedResponses = 0

(***************************************************************************)
(* An email send: the function called, whom it is addressed to (one email  *)
(* string, or the list of memberships), the product it is issued for, the  *)
(* payload, and the state of the promise the call returned.                *)
(***************************************************************************)
ToEmail(email) == [type |-> "string", emails |-> <<email>>]
ToMembers(members) ==
  [type |-> "memberships", emails |-> [i \in 1..Len(members) |-> members[i].user.email]]
NoPayload == [environmentId |-> "", surveys |-> <<>>, insights |-> InitialInsights]
Send(fn, to, productId, payload) ==
  [fn |-> fn, to |-> to, productId |-> productId, payload |-> payload, state |-> "pending"]

\* lines 94-99: one send per member, then one more with the whole list
NoResponseSends(members, product) ==
  [i \in 1..Len(members) |->
     Send("sendNoLiveSurveyNotificationEmail", ToEmail(members[i].user.email), product.id,
          NoPayload)]
  \o <<Send("sendNoLiveSurveyNotificationEmail", ToMembers(members), product.id, NoPayload)>>

\* lines 103-112 (the two dates and the product's name carry no state here)
NotificationResponse(env, surveyData, ins) ==
  [environmentId |-> env.id, surveys |-> surveyData, insights |-> ins]

\* a summary sent to each member apart
WeeklySummarySendsEach(members, product, notificationResponse) ==
  [i \in 1..Len(members) |->
     Send("sendWeeklySummaryNotificationEmail", ToEmail(members[i].user.email), product.id,
          notificationResponse)]

\* lines 114-116
WeeklySummarySends(members, product, notificationResponse) ==
  <<Send("sendWeeklySummaryNotificationEmail", ToMembers(members), product.id,
         notificationResponse)>>

\* a join that returns once no send is left rejected, pending ones included
JoinNoneRejected(promises) == \A i \in 1..Len(promises) : promises[i].state # "rejected"
\* a join that returns once every send has settled (Promise.allSettled)
JoinAllSettled(promises) == \A i \in 1..Len(promises) : promises[i].state # "pending"

\* line 119: Promise.all resolves when every promise has, and rejects as
\* soon as one has
JoinResolved(promises) == \A i \in 1..Len(promises) : promises[i].state = "resolved"
JoinRejected(promises) == \E i \in 1..Len(promises) : promises[i].state = "rejected"

(***************************************************************************)
(* The state of one run of POST.                                           *)
(***************************************************************************)
VARIABLES
  db,                    \* what the query of getProducts returns
  header,                \* the request's x-api-key, once read
  pc,                    \* where the handler stands
  response,              \* what the handler returned, or that it threw
  dbQueries,             \* the calls of getProducts made
  products,              \* line 40
  productIdx,            \* the products the loop of line 43 has passed
  teamMembersWithNotificationEnabled,   \* line 46
  environment,           \* line 64
  insights,              \* line 57
  surveys,               \* line 65
  surveyIdx,             \* the surveys the loop of line 68 has passed
  emailSendingPromises,  \* line 38
  aggregated,            \* the ids of the products whose environments were read
  joins                  \* the calls of Promise.all made

vars ==
  <<db, header, pc, response, dbQueries, products, productIdx,
    teamMembersWithNotificationEnabled, environment, insights, surveys, surveyIdx,
    emailSendingPromises, aggregated, joins>>

Unread == "<unread>"

Start(databases) ==
  /\ db \in databases
  /\ header = Unread
  /\ pc = "authenticate"
  /\ response = "none"
  /\ dbQueries = 0
  /\ products = <<>>
  /\ productIdx = 0
  /\ teamMembersWithNotificationEnabled = <<>>
  /\ environment = NoEnvironment
  /\ insights = InitialInsights
  /\ surveys = <<>>
  /\ surveyIdx = 0
  /\ emailSendingPromises = <<>>
  /\ aggregated = {}
  /\ joins = 0

\* the block-scoped values of one iteration of the loop over products
ResetIteration ==
  /\ teamMembersWithNotificationEnabled' = <<>>
  /\ environment' = NoEnvironment
  /\ insights' = InitialInsights
  /\ surveys' = <<>>
  /\ surveyIdx' = 0

iteration == <<teamMembersWithNotificationEnabled, environment, insights, surveys, surveyIdx>>

(***************************************************************************)
(* The databases the runs are checked on.                                  *)
(***************************************************************************)
EnvironmentSeqs(firstSet, furtherSet, maxE) ==
  {<<>>} \cup {<<f>> \o rest : f \in firstSet, rest \in SeqsUpTo(furtherSet, maxE - 1)}

\* every kind of settings on up to maxM members, over up to maxP
\* products with no, an empty, an unanswered or an answered survey
DispatchDatabases(maxP, maxM) ==
  LET environmentSet == EnvironmentSet(SurveySet({"live"}, 0, 1, BOOLEAN, {}, 0), 1)
  IN UNION {ProductSeqs(EnvironmentSeqs(environmentSet, {}, 1), ms, maxP) :
              ms \in MembershipSeqs(AllSettings, maxM)}

\* one product: every first environment of up to maxS surveys with up to
\* maxR responses and maxD displays, and further
\* environments that hold responses and displays of their own
InsightsDatabases(maxE, maxS, maxR, maxD) ==
  LET firstSet == EnvironmentSet(
                    SurveySet({"live", "paused"}, 0, maxR, BOOLEAN, {}, maxD),
                    maxS)
      furtherSet == EnvironmentSet(SurveySet({"live"}, 0, 1, {TRUE}, {}, 1), 1)
  IN UNION {ProductSeqs(EnvironmentSeqs(firstSet, furtherSet, maxE), ms, 1) :
              ms \in MembershipSeqs({SettingsWith(1 :> TRUE)}, 1)}

\* one product: a survey of up to maxQ questions whose up to maxR responses
\* answer any part of them with a text or the number 0
Answers == {Str("yes"), Num(0)}
RecordsDatabases(maxQ, maxR) ==
  LET environmentSet == EnvironmentSet(
                          SurveySet({"live"}, maxQ, maxR, {TRUE}, Answers, 0),
                          1)
  IN UNION {ProductSeqs(EnvironmentSeqs(environmentSet, {}, 1), ms, 1) :
              ms \in MembershipSeqs({SettingsWith(1 :> TRUE)}, 1)}

\* one product with one survey of up to maxR finished responses and up to
\* maxD displays
RateDatabases(maxR, maxD) ==
  LET environmentSet == EnvironmentSet(
                          SurveySet({"live"}, 0, maxR, {TRUE}, {}, maxD),
                          1)
  IN UNION {ProductSeqs(EnvironmentSeqs(environmentSet, {}, 1), ms, 1) :
              ms \in MembershipSeqs({SettingsWith(1 :> TRUE)}, 1)}

Init == Start(DispatchDatabases(MaxProducts, MaxMembers))
InitInsights ==
  Start(InsightsDatabases(MaxEnvironments, MaxSurveys, MaxResponses, MaxDisplays))
InitRecords == Start(RecordsDatabases(MaxQuestions, MaxResponses))
InitRate == Start(RateDatabases(MaxRateResponses, MaxRateDisplays))

(***************************************************************************)
(* POST, step by step.                                                     *)
(***************************************************************************)
\* lines 33-35: the header is read and does not match
NotAuthenticated(h) ==
  /\ pc = "authenticate"
  /\ ~Authenticated(h)
  /\ header' = h
  /\ response' = "notAuthenticated"
  /\ pc' = "done"
  /\ UNCHANGED <<db, dbQueries, products, productIdx, iteration, emailSendingPromises,
                 aggregated, joins>>

\* lines 33-38: the header matches
Authenticate(h) ==
  /\ pc = "authenticate"
  /\ Authenticated(h)
  /\ header' = h
  /\ emailSendingPromises' = <<>>
  /\ pc' = "getProducts"
  /\ UNCHANGED <<db, response, dbQueries, products, productIdx, iteration, aggregated, joins>>

\* line 40 and lines 124-187: the query answers
GetProducts ==
  /\ pc = "getProducts"
  /\ dbQueries' = dbQueries + 1
  /\ products' = db
  /\ pc' = "products"
  /\ UNCHANGED <<db, header, response, productIdx, iteration, emailSendingPromises,
                 aggregated, joins>>

\* line 40: the query fails, and the rejection leaves POST
GetProductsRejects ==
  /\ pc = "getProducts"
  /\ dbQueries' = dbQueries + 1
  /\ response' = "error"
  /\ pc' = "done"
  /\ UNCHANGED <<db, header, products, productIdx, iteration, emailSendingPromises,
                 aggregated, joins>>

\* lines 43-55: a product no member has enabled is skipped
SkipProduct ==
  /\ pc = "products"
  /\ productIdx < Len(products)
  /\ NoRecipients(EnabledMembers(products[productIdx + 1]))
  /\ productIdx' = productIdx + 1
  /\ UNCHANGED <<db, header, pc, response, dbQueries, products, iteration,
                 emailSendingPromises, aggregated, joins>>

\* lines 43-68: a product with recipients and a first environment
BeginProduct ==
  /\ pc = "products"
  /\ productIdx < Len(products)
  /\ LET product == products[productIdx + 1]
     IN /\ ~NoRecipients(EnabledMembers(product))
        /\ FirstEnvironment(product) # NoEnvironment
        /\ teamMembersWithNotificationEnabled' = EnabledMembers(product)
        /\ insights' = InitialInsights
        /\ environment' = FirstEnvironment(product)
        /\ aggregated' = aggregated \cup {product.id}
  /\ surveys' = <<>>
  /\ surveyIdx' = 0
  /\ pc' = "surveys"
  /\ UNCHANGED <<db, header, response, dbQueries, products, productIdx,
                 emailSendingPromises, joins>>

\* lines 43-68: a product with recipients and no environment: environment
\* is undefined, and environment.surveys throws a TypeError that leaves POST
ThrowNoEnvironment ==
  /\ pc = "products"
  /\ productIdx < Len(products)
  /\ LET product == products[productIdx + 1]
     IN /\ ~NoRecipients(EnabledMembers(product))
        /\ FirstEnvironment(product) = NoEnvironment
        /\ aggregated' = aggregated \cup {product.id}
  /\ response' = "error"
  /\ pc' = "done"
  /\ ResetIteration
  /\ UNCHANGED <<db, header, dbQueries, products, productIdx, emailSendingPromises, joins>>

\* lines 68-91: one survey
ProcessSurvey ==
  /\ pc = "surveys"
  /\ surveyIdx < Len(environment.surveys)
  /\ LET survey == environment.surveys[surveyIdx + 1]
     IN /\ surveys' = Append(surveys, SurveyDataOf(survey))
        /\ insights' = AddSurvey(insights, survey)
  /\ surveyIdx' = surveyIdx + 1
  /\ UNCHANGED <<db, header, pc, response, dbQueries, products, productIdx,
                 teamMembersWithNotificationEnabled, environment, emailSendingPromises,
                 aggregated, joins>>

\* lines 93-101
SendNoResponses ==
  /\ pc = "surveys"
  /\ surveyIdx = Len(environment.surveys)
  /\ NoCompletedResponses(insights)
  /\ emailSendingPromises' =
       emailSendingPromises
         \o NoResponseSends(teamMembersWithNotificationEnabled, products[productIdx + 1])
  /\ productIdx' = productIdx + 1
  /\ pc' = "products"
  /\ ResetIteration
  /\ UNCHANGED <<db, header, response, dbQueries, products, aggregated, joins>>

\* lines 102-117
SendWeeklySummary ==
  /\ pc = "surveys"
  /\ surveyIdx = Len(environment.surveys)
  /\ ~NoCompletedResponses(insights)
  /\ emailSendingPromises' =
       emailSendingPromises
         \o WeeklySummarySends(teamMembersWithNotificationEnabled, products[productIdx + 1],
                               NotificationResponse(environment, surveys, insights))
  /\ productIdx' = productIdx + 1
  /\ pc' = "products"
  /\ ResetIteration
  /\ UNCHANGED <<db, header, response, dbQueries, products, aggregated, joins>>

\* lines 118-119: the loop is over, Promise.all is called and awaited
CallPromiseAll ==
  /\ pc = "products"
  /\ productIdx = Len(products)
  /\ joins' = joins + 1
  /\ pc' = "join"
  /\ UNCHANGED <<db, header, response, dbQueries, products, productIdx, iteration,
                 emailSendingPromises, aggregated>>

\* lines 119-120: every send has resolved
JoinResolves ==
  /\ pc = "join"
  /\ JoinResolved(emailSendingPromises)
  /\ response' = "success"
  /\ pc' = "done"
  /\ UNCHANGED <<db, header, dbQueries, products, productIdx, iteration,
                 emailSendingPromises, aggregated, joins>>

\* line 119: a send has rejected, and the rejection leaves POST
JoinRejects ==
  /\ pc = "join"
  /\ JoinRejected(emailSendingPromises)
  /\ response' = "error"
  /\ pc' = "done"
  /\ UNCHANGED <<db, header, dbQueries, products, productIdx, iteration,
                 emailSendingPromises, aggregated, joins>>

(***************************************************************************)
(* The email module: an issued send settles at a time of its own.          *)
(***************************************************************************)
SendSettles(i, outcome) ==
  /\ emailSendingPromises[i].state = "pending"
  /\ emailSendingPromises' = [emailSendingPromises EXCEPT ![i].state = outcome]
  /\ UNCHANGED <<db, header, pc, response, dbQueries, products, productIdx, iteration,
                 aggregated, joins>>

SendResolves == \E i \in 1..Len(emailSendingPromises) : SendSettles(i, "resolved")
SendRejects == \E i \in 1..Len(emailSendingPromises) : SendSettles(i, "rejected")

Next ==
  \/ \E h \in Headers : NotAuthenticated(h)
  \/ \E h \in Headers : Authenticate(h)
  \/ GetProducts
  \/ GetProductsRejects
  \/ SkipProduct
  \/ BeginProduct
  \/ ThrowNoEnvironment
  \/ ProcessSurvey
  \/ SendNoResponses
  \/ SendWeeklySummary
  \/ CallPromiseAll
  \/ JoinResolves
  \/ JoinRejects
  \/ SendResolves
  \/ SendRejects

Spec == Init /\ [][Next]_vars
SpecInsights == InitInsights /\ [][Next]_vars
SpecRecords == InitRecords /\ [][Next]_vars
SpecRate == InitRate /\ [][Next]_vars

(***************************************************************************)
(* What the claims speak of, stated on the database and on the sends.      *)
(***************************************************************************)
RECURSIVE SumOf(_)
SumOf(ns) == IF ns = <<>> THEN 0 ELSE Head(ns) + SumOf(Tail(ns))

Range(seq) == {seq[i] : i \in 1..Len(seq)}

\* the member's weeklySummary map holds a true flag for this product id
FlagSet(member, pid) ==
  LET flags == member.user.notificationSettings.weeklySummary
  IN pid \in DOMAIN flags /\ flags[pid] = TRUE

RecipientList(pid) ==
  LET Flagged(member) == FlagSet(member, pid)
  IN SelectSeq(db[pid].team.memberships, Flagged)
Recipients(pid) == {member.user.email : member \in Range(RecipientList(pid))}

FinishedCount(survey) ==
  Cardinality({r \in 1..Len(survey.responses) : survey.responses[r].finished})
\* the finished responses of the first j surveys of the first environment
FinishedIn(pid, j) ==
  SumOf([k \in 1..j |-> FinishedCount(db[pid].environments[1].surveys[k])])
DisplaysIn(pid, j) ==
  SumOf([k \in 1..j |-> Len(db[pid].environments[1].surveys[k].displays)])
ResponsesIn(pid, j) ==
  SumOf([k \in 1..j |-> Len(db[pid].environments[1].surveys[k].responses)])
LiveIn(pid, j) ==
  Cardinality({k \in 1..j : db[pid].environments[1].surveys[k].status = "live"})
SurveyCount(pid) == Len(db[pid].environments[1].surveys)
HasEnvironment(pid) == Len(db[pid].environments) > 0

\* the loop over products has passed product pid
Passed(pid) == pid <= productIdx
IssuedFor(pid) == {i \in 1..Len(emailSendingPromises) : emailSendingPromises[i].productId = pid}
IssuedBy(pid, fn) == {i \in IssuedFor(pid) : emailSendingPromises[i].fn = fn}
Addressed(i) == Range(emailSendingPromises[i].to.emails)
AddressedFor(pid) == UNION {Addressed(i) : i \in IssuedFor(pid)}

\* product pid has recipients and a first environment, and its surveys hold
\* no finished response / some finished response
QuietProduct(pid) ==
  /\ Recipients(pid) # {}
  /\ HasEnvironment(pid)
  /\ FinishedIn(pid, SurveyCount(pid)) = 0
AnsweredProduct(pid) ==
  /\ Recipients(pid) # {}
  /\ HasEnvironment(pid)
  /\ FinishedIn(pid, SurveyCount(pid)) > 0

(***************************************************************************)
(* C1: for every product the loop has passed that has recipients and no    *)
(* finished response, the sends issued for it are exactly one              *)
(* sendNoLiveSurveyNotificationEmail per recipient, each addressed to one  *)
(* email string, and no sendWeeklySummaryNotificationEmail.                *)
(***************************************************************************)
C1_NoResponsesOncePerRecipient ==
  \A pid \in 1..Len(db) :
    (Passed(pid) /\ QuietProduct(pid)) =>
      /\ Cardinality(IssuedBy(pid, "sendNoLiveSurveyNotificationEmail"))
           = Cardinality(Recipients(pid))
      /\ \A i \in IssuedBy(pid, "sendNoLiveSurveyNotificationEmail") :
           /\ emailSendingPromises[i].to.type = "string"
           /\ Len(emailSendingPromises[i].to.emails) = 1
      /\ IssuedBy(pid, "sendWeeklySummaryNotificationEmail") = {}

(***************************************************************************)
(* C2: for every product the loop has passed that has recipients and some  *)
(* finished response, exactly one send is issued for it: one               *)
(* sendWeeklySummaryNotificationEmail addressed to the list of all its     *)
(* recipients, and no sendNoLiveSurveyNotificationEmail.                   *)
(***************************************************************************)
C2_OneWeeklySummaryToAllRecipients ==
  \A pid \in 1..Len(db) :
    (Passed(pid) /\ AnsweredProduct(pid)) =>
      /\ Cardinality(IssuedFor(pid)) = 1
      /\ \A i \in IssuedFor(pid) :
           /\ emailSendingPromises[i].fn = "sendWeeklySummaryNotificationEmail"
           /\ emailSendingPromises[i].to.type = "memberships"
           /\ emailSendingPromises[i].to.emails
                = [k \in 1..Len(RecipientList(pid)) |-> RecipientList(pid)[k].user.email]

\* a passed product with finished responses and two recipients
C2_Witness ==
  \E pid \in 1..Len(db) :
    /\ Passed(pid)
    /\ AnsweredProduct(pid)
    /\ Cardinality(Recipients(pid)) = 2
    /\ IssuedFor(pid) # {}

(***************************************************************************)
(* C3: for every product no member has enabled, no send of either kind is  *)
(* ever issued and its environments are never read, whether or not it has  *)
(* an environment.                                                         *)
(***************************************************************************)
C3_NoRecipientsNoWork ==
  \A pid \in 1..Len(db) :
    Recipients(pid) = {} => (IssuedFor(pid) = {} /\ pid \notin aggregated)

\* a run that ended well and passed a product with members, none of them
\* enabled for it, and no environment
C3_Witness ==
  /\ response = "success"
  /\ \E pid \in 1..Len(db) :
       /\ Passed(pid)
       /\ Recipients(pid) = {}
       /\ Len(db[pid].team.memberships) > 0
       /\ ~HasEnvironment(pid)

(***************************************************************************)
(* C4: the users the sends issued for a product address are exactly the    *)
(* members whose weeklySummary map holds a true flag for that product id:  *)
(* no send addresses anyone else, and once the loop has passed the product *)
(* every such member is addressed.                                         *)
(***************************************************************************)
C4_RecipientsAreTheEnabledMembers ==
  \A pid \in 1..Len(db) :
    /\ AddressedFor(pid) \subseteq Recipients(pid)
    /\ Passed(pid) => AddressedFor(pid) = Recipients(pid)

\* a passed product with one member enabled and another whose flag is
\* false, set for another product only, or who has no settings: one target
C4_Witness ==
  \E pid \in 1..Len(db) :
    /\ Passed(pid)
    /\ Len(db[pid].team.memberships) = 2
    /\ Cardinality(Recipients(pid)) = 1
    /\ AddressedFor(pid) = Recipients(pid)
    /\ \E m \in Range(db[pid].team.memberships) :
         /\ ~FlagSet(m, pid)
         /\ \E other \in DOMAIN m.user.notificationSettings.weeklySummary :
              other # pid /\ m.user.notificationSettings.weeklySummary[other]

(***************************************************************************)
(* C5: a request whose x-api-key is not CRON_SECRET gets the               *)
(* unauthenticated response with no call of getProducts and no send; the   *)
(* query is run and sends are issued only when the header matched.         *)
(***************************************************************************)
C5_NoWorkWithoutTheSecret ==
  /\ (header # Unread /\ header # CRON_SECRET) =>
       (response = "notAuthenticated" /\ dbQueries = 0 /\ emailSendingPromises = <<>>)
  /\ (dbQueries > 0 \/ emailSendingPromises # <<>>) => header = CRON_SECRET

\* a refused request on a database that holds a product with a recipient
C5_Witness ==
  /\ header = "wrong-key"
  /\ response = "notAuthenticated"
  /\ \E pid \in 1..Len(db) : QuietProduct(pid)

\* round(100 * finished / displays), halves rounded up as Math.round does
RoundedPercentage(finished, displays) == (200 * finished + displays) \div (2 * displays)

(***************************************************************************)
(* C6: after each survey, insights.completionRate is                       *)
(* round(100 * finished responses so far / displays so far), and no finite *)
(* number while no display has been counted.                               *)
(***************************************************************************)
C6_CompletionRateIsRoundedRatio ==
  (pc = "surveys" /\ surveyIdx >= 1) =>
    LET finished == FinishedIn(productIdx + 1, surveyIdx)
        displays == DisplaysIn(productIdx + 1, surveyIdx)
    IN IF displays = 0
       THEN insights.completionRate.kind # "finite"
       ELSE insights.completionRate = Finite(RoundedPercentage(finished, displays))

\* the steps of the loop over products
HandlerStep ==
  \/ SkipProduct
  \/ BeginProduct
  \/ ThrowNoEnvironment
  \/ ProcessSurvey
  \/ SendNoResponses
  \/ SendWeeklySummary
  \/ CallPromiseAll

\* the state part of C7
C7_JoinedOnceAtTheEnd ==
  /\ joins <= 1
  /\ joins = 1 => (pc \in {"join", "done"} /\ productIdx = Len(products))
  /\ pc \in {"products", "surveys"} => (joins = 0 /\ ENABLED HandlerStep)
  /\ response = "success" =>
       /\ joins = 1
       /\ \A i \in 1..Len(emailSendingPromises) : emailSendingPromises[i].state = "resolved"

(***************************************************************************)
(* C7: Promise.all is called once, when the loop has passed every product, *)
(* and no send is issued after it; while the loop runs the handler can     *)
(* always step, whatever the state of the sends issued so far; and the     *)
(* success response is returned only when every issued send has resolved.  *)
(***************************************************************************)
C7_SendsIssuedThenJoinedOnce ==
  /\ []C7_JoinedOnceAtTheEnd
  /\ [][joins >= 1 => Len(emailSendingPromises') = Len(emailSendingPromises)]_vars

\* a run that ended well with sends issued for two products
C7_Witness ==
  /\ response = "success"
  /\ IssuedFor(1) # {}
  /\ IssuedFor(2) # {}

SomeRejected ==
  \E i \in 1..Len(emailSendingPromises) : emailSendingPromises[i].state = "rejected"

\* the state part of C8
C8_NoSuccessAfterARejection ==
  /\ SomeRejected => response # "success"
  /\ (SomeRejected /\ pc = "done" /\ joins = 1) => response = "error"

(***************************************************************************)
(* C8: once a send has rejected the success response is never returned,    *)
(* whatever the other sends did, and a run that reached Promise.all ends   *)
(* as a failure; a rejected send stays rejected and nothing is issued      *)
(* again for a product the loop has passed.                                *)
(***************************************************************************)
C8_OneRejectionFailsTheRun ==
  /\ []C8_NoSuccessAfterARejection
  /\ [][/\ \A i \in 1..Len(emailSendingPromises) :
             emailSendingPromises[i].state = "rejected" =>
               emailSendingPromises'[i] = emailSendingPromises[i]
        /\ \A pid \in 1..Len(db) : Passed(pid) => IssuedFor(pid)' = IssuedFor(pid)]_vars

\* a joined run that failed on a rejected send of product 1 although the
\* sends of product 2 all resolved
C8_Witness ==
  /\ response = "error"
  /\ joins = 1
  /\ \E i \in IssuedFor(1) : emailSendingPromises[i].state = "rejected"
  /\ IssuedFor(2) # {}
  /\ \A i \in IssuedFor(2) : emailSendingPromises[i].state = "resolved"

\* ins holds the counts over the first j surveys of pid's first environment
SumsOver(ins, pid, j) ==
  /\ j <= SurveyCount(pid)
  /\ ins.numLiveSurvey = LiveIn(pid, j)
  /\ ins.totalCompletedResponses = FinishedIn(pid, j)
  /\ ins.totalDisplays = DisplaysIn(pid, j)
  /\ ins.totalResponses = ResponsesIn(pid, j)
  /\ ins.totalCompletedResponses <= ins.totalResponses

(***************************************************************************)
(* C9: while a product is aggregated, and in every weekly-summary payload, *)
(* numLiveSurvey, totalCompletedResponses, totalDisplays and               *)
(* totalResponses are the number of live surveys, of finished responses,   *)
(* of displays and of responses of the surveys of the product's first      *)
(* environment processed so far (all of them in the payload), so           *)
(* totalCompletedResponses <= totalResponses; no other environment counts. *)
(***************************************************************************)
C9_InsightsSumTheFirstEnvironment ==
  /\ pc = "surveys" => SumsOver(insights, productIdx + 1, surveyIdx)
  /\ \A i \in 1..Len(emailSendingPromises) :
       emailSendingPromises[i].fn = "sendWeeklySummaryNotificationEmail" =>
         LET pid == emailSendingPromises[i].productId
             payload == emailSendingPromises[i].payload
         IN /\ SumsOver(payload.insights, pid, SurveyCount(pid))
            /\ payload.environmentId = db[pid].environments[1].id

\* a weekly summary for a product whose first environment holds two
\* surveys, one of them not live, with an unfinished response, and whose
\* second environment holds a finished response and a display
C9_Witness ==
  \E i \in 1..Len(emailSendingPromises) :
    LET pid == emailSendingPromises[i].productId
        ins == emailSendingPromises[i].payload.insights
    IN /\ emailSendingPromises[i].fn = "sendWeeklySummaryNotificationEmail"
       /\ SurveyCount(pid) = 2
       /\ ins.numLiveSurvey = 1
       /\ ins.totalCompletedResponses < ins.totalResponses
       /\ ins.totalDisplays > 0
       /\ Len(db[pid].environments) = 2
       /\ Len(db[pid].environments[2].surveys) = 1
       /\ Len(db[pid].environments[2].surveys[1].responses) = 1
       /\ Len(db[pid].environments[2].surveys[1].displays) = 1

(***************************************************************************)
(* C10: the record of every survey processed lists, response by response   *)
(* and within a response question by question, the question's headline     *)
(* with response.data[question.id], or null where the data map has no such *)
(* key: |responses| * |questions| entries; the records stand in the order  *)
(* of the surveys.                                                         *)
(***************************************************************************)
C10_RecordsPairHeadlineWithDataValue ==
  pc = "surveys" =>
    /\ Len(surveys) = surveyIdx
    /\ \A j \in 1..surveyIdx :
         LET survey == db[productIdx + 1].environments[1].surveys[j]
             nq == Len(survey.questions)
             nr == Len(survey.responses)
         IN /\ surveys[j].name = survey.name
            /\ Len(surveys[j].responses) = nr * nq
            /\ \A r \in 1..nr : \A q \in 1..nq :
                 LET entry == surveys[j].responses[(r - 1) * nq + q]
                     data == survey.responses[r].data
                     id == survey.questions[q].id
                 IN /\ entry.headline = survey.questions[q].headline
                    /\ entry.answer = IF id \in DOMAIN data THEN data[id] ELSE Null

\* product pid has a recipient and no environment
Stranded(pid) == Recipients(pid) # {} /\ ~HasEnvironment(pid)

\* the state part of C11
C11_NothingFromTheStrandedProductOn ==
  \A pid \in 1..Len(db) :
    Stranded(pid) =>
      /\ response # "success"
      /\ joins = 0
      /\ pc # "join"
      /\ productIdx < pid
      /\ \A later \in pid..Len(db) : IssuedFor(later) = {}
      /\ (pc = "products" /\ productIdx + 1 = pid /\ products # <<>>) =>
           (ENABLED ThrowNoEnvironment /\ ~ENABLED (SkipProduct \/ BeginProduct \/ CallPromiseAll))

(***************************************************************************)
(* C11: when a product has a recipient and no environment, the run never   *)
(* returns success and never calls Promise.all, no send is ever issued for *)
(* that product or a later one, the loop's only step at that product is    *)
(* the exception that ends the run as a failure, and the sends issued for  *)
(* earlier products stay issued.                                           *)
(***************************************************************************)
C11_NoEnvironmentAbortsTheRun ==
  /\ []C11_NothingFromTheStrandedProductOn
  /\ [][/\ (pc = "products" /\ productIdx < Len(products) /\ Stranded(productIdx + 1)
            /\ pc' # pc)
           => (pc' = "done" /\ response' = "error" /\ productIdx' = productIdx)
        /\ Len(emailSendingPromises') >= Len(emailSendingPromises)
        /\ \A i \in 1..Len(emailSendingPromises) :
             /\ emailSendingPromises'[i].fn = emailSendingPromises[i].fn
             /\ emailSendingPromises'[i].to = emailSendingPromises[i].to
             /\ emailSendingPromises'[i].productId = emailSendingPromises[i].productId]_vars

\* a run that threw at product 2, which has a recipient and no environment,
\* after the sends of product 1 were issued
C11_Witness ==
  /\ pc = "done"
  /\ response = "error"
  /\ joins = 0
  /\ productIdx = 1
  /\ Len(db) = 2
  /\ Stranded(2)
  /\ 2 \in aggregated
  /\ IssuedFor(1) # {}
  /\ IssuedFor(2) = {}
====
